---------------------------- MODULE Spec2Model ----------------------------
(***************************************************************************)
(* Model of the HeatShift incentive calculator (src/solution_FRA.py):      *)
(* match_incentive, calc_incentive_amount, build_stacked_plan,             *)
(* incentives_multi and calc_co2_profile.                                  *)
(*                                                                         *)
(* Python floats are modelled as exact rationals [n, d] in lowest terms    *)
(* with d > 0; IEEE rounding is not modelled.  A raised Python exception   *)
(* is recorded in the variable err.                                        *)
(***************************************************************************)
EXTENDS Integers, Sequences, FiniteSets, TLC

VARIABLES
    p,          \* the BuildingProfile argument
    inc,        \* the Incentive argument / the loop variable inc
    incentives, \* the catalog argument of build_stacked_plan
    supplier,   \* the Supplier argument of calc_co2_profile
    pc,         \* position of the running call
    err,        \* "none", or the name of the exception the call raised
    k,          \* number of catalog entries the for loop has consumed
    applied,    \* build_stacked_plan's local list of IncentiveResult
    matched,    \* return value of match_incentive
    amount,     \* return value of calc_incentive_amount
    plan,       \* return value of build_stacked_plan
    hp_kwh,     \* calc_co2_profile's local hp_kwh
    co2,        \* return value of calc_co2_profile
    calls       \* the build_stacked_plan calls that have returned: arguments and plan

vars == <<p, inc, incentives, supplier, pc, err, k, applied, matched, amount,
          plan, hp_kwh, co2, calls>>

-----------------------------------------------------------------------------
(* Bounds of the model *)

MaxCost == 3
MaxCap == 2
MaxCatalog == 2
MaxAnnual == 3

-----------------------------------------------------------------------------
(* Exact arithmetic standing for Python float arithmetic *)

Abs(x) == IF x < 0 THEN -x ELSE x

RECURSIVE GCD(_, _)
GCD(a, b) == IF b = 0 THEN a ELSE GCD(b, a % b)

\* the rational n/d (d # 0) in lowest terms with a positive denominator
Rat(n, d) ==
    LET s == IF d < 0 THEN -1 ELSE 1
        g == GCD(Abs(n), Abs(d))
    IN  [n |-> (s * n) \div g, d |-> (s * d) \div g]

Num(x) == Rat(x, 1)
Zero == Num(0)

\* sums, differences and comparisons over the least common denominator, and
\* products and quotients cancelled crosswise, to keep the integers small
RAdd(a, b) ==
    LET g == GCD(a.d, b.d)
    IN  Rat(a.n * (b.d \div g) + b.n * (a.d \div g), (a.d \div g) * b.d)

RSub(a, b) ==
    LET g == GCD(a.d, b.d)
    IN  Rat(a.n * (b.d \div g) - b.n * (a.d \div g), (a.d \div g) * b.d)

RMul(a, b) ==
    LET g1 == GCD(Abs(a.n), b.d)
        g2 == GCD(Abs(b.n), a.d)
    IN  Rat((a.n \div g1) * (b.n \div g2), (a.d \div g2) * (b.d \div g1))

RLe(a, b) ==
    LET g == GCD(a.d, b.d)
    IN  a.n * (b.d \div g) <= b.n * (a.d \div g)

RLt(a, b) ==
    LET g == GCD(a.d, b.d)
    IN  a.n * (b.d \div g) < b.n * (a.d \div g)

RMin(a, b) == IF RLt(b, a) THEN b ELSE a
RMax(a, b) == IF RLt(a, b) THEN b ELSE a

\* Python's a / b on floats: raises ZeroDivisionError when b is zero
TrueDiv(a, b) ==
    IF b.n = 0
    THEN [raised |-> "ZeroDivisionError", value |-> Zero]
    ELSE [raised |-> "none", value |-> RMul(a, Rat(b.d, b.n))]

\* Python's sum() over a list of amounts
RECURSIVE Sum(_)
Sum(s) == IF s = <<>> THEN Zero ELSE RAdd(s[1], Sum(Tail(s)))

-----------------------------------------------------------------------------
(* Strings and optional values *)

\* Python's None in an Optional[str] field; differs from every string used
None == "None"

\* truth value of an Optional[str]: None and "" are falsy
Truthy(s) == s # None /\ s # ""

\* str.lower() on the city names of the model
Lower(s) ==
    CASE s = "Frankfurt" -> "frankfurt"
      [] s = "FRANKFURT" -> "frankfurt"
      [] s = "Berlin" -> "berlin"
      [] s = "Munich" -> "munich"
      [] s = "Other" -> "other"
      [] s = "Vienna" -> "vienna"
      [] s = "Graz" -> "graz"
      [] s = "Warsaw" -> "warsaw"
      [] s = "Krakow" -> "krakow"
      [] s = "Capital" -> "capital"
      [] OTHER -> s

\* x in l, for a Python list l
InList(x, l) == \E j \in 1..Len(l) : l[j] = x

\* truth value of a Python list: non-empty
NonEmpty(l) == Len(l) > 0

-----------------------------------------------------------------------------
(* 2. INCENTIVE LOGIC *)

\* match_incentive comparing the city names without lower()
match_incentive_case_sensitive(i, q) ==
    IF i.country # q.country THEN FALSE
    ELSE IF Truthy(i.city) /\ i.city # q.city THEN FALSE
    ELSE IF Truthy(i.income_target) /\ i.income_target # q.income_level THEN FALSE
    ELSE IF NonEmpty(i.eligible_owner_types)
            /\ ~InList(q.owner_type, i.eligible_owner_types) THEN FALSE
    ELSE IF NonEmpty(i.eligible_building_types)
            /\ ~InList(q.building_type, i.eligible_building_types) THEN FALSE
    ELSE IF NonEmpty(i.eligible_current_heat)
            /\ ~InList(q.current_heating, i.eligible_current_heat) THEN FALSE
    ELSE IF NonEmpty(i.eligible_target_tech)
            /\ ~InList(q.target_tech, i.eligible_target_tech) THEN FALSE
    ELSE TRUE

\* match_incentive without the empty-list wildcard on the building types
match_incentive_no_wildcard(i, q) ==
    IF i.country # q.country THEN FALSE
    ELSE IF Truthy(i.city) /\ Lower(i.city) # Lower(q.city) THEN FALSE
    ELSE IF Truthy(i.income_target) /\ i.income_target # q.income_level THEN FALSE
    ELSE IF NonEmpty(i.eligible_owner_types)
            /\ ~InList(q.owner_type, i.eligible_owner_types) THEN FALSE
    ELSE IF ~InList(q.building_type, i.eligible_building_types) THEN FALSE
    ELSE IF NonEmpty(i.eligible_current_heat)
            /\ ~InList(q.current_heating, i.eligible_current_heat) THEN FALSE
    ELSE IF NonEmpty(i.eligible_target_tech)
            /\ ~InList(q.target_tech, i.eligible_target_tech) THEN FALSE
    ELSE TRUE

match_incentive(i, q) ==
    IF i.country # q.country THEN FALSE
    ELSE IF Truthy(i.city) /\ Lower(i.city) # Lower(q.city) THEN FALSE
    ELSE IF Truthy(i.income_target) /\ i.income_target # q.income_level THEN FALSE
    ELSE IF NonEmpty(i.eligible_owner_types)
            /\ ~InList(q.owner_type, i.eligible_owner_types) THEN FALSE
    ELSE IF NonEmpty(i.eligible_building_types)
            /\ ~InList(q.building_type, i.eligible_building_types) THEN FALSE
    ELSE IF NonEmpty(i.eligible_current_heat)
            /\ ~InList(q.current_heating, i.eligible_current_heat) THEN FALSE
    ELSE IF NonEmpty(i.eligible_target_tech)
            /\ ~InList(q.target_tech, i.eligible_target_tech) THEN FALSE
    ELSE TRUE

\* calc_incentive_amount without the clamp at max_amount
calc_incentive_amount_uncapped(i, q) ==
    IF i.is_loan THEN Zero
    ELSE RMul(q.total_cost, i.coverage_rate)

\* calc_incentive_amount without the is_loan test
calc_incentive_amount_loan_as_grant(i, q) ==
    LET value == RMul(q.total_cost, i.coverage_rate)
    IN  IF i.max_amount.n # 0 THEN RMin(value, i.max_amount) ELSE value

calc_incentive_amount(i, q) ==
    IF i.is_loan THEN Zero
    ELSE LET value == RMul(q.total_cost, i.coverage_rate)
         IN  IF i.max_amount.n # 0 THEN RMin(value, i.max_amount) ELSE value

-----------------------------------------------------------------------------
(* 1. MODELS *)

\* BuildingProfile(...) with the dataclass defaults for the costs
BuildingProfile(country, city, owner_type, income_level, building_type, year_built, current_heating, target_tech, total_cost) ==
    [country |-> country, city |-> city, owner_type |-> owner_type,
     income_level |-> income_level, building_type |-> building_type,
     year_built |-> year_built, current_heating |-> current_heating,
     target_tech |-> target_tech, total_cost |-> total_cost,
     annual_current_cost |-> Num(2200), annual_hp_cost |-> Num(1100)]

\* Incentive(...) with the fields the calculations read
Incentive(id, country, city, coverage_rate, max_amount, owner_types, building_types, current_heat, target_tech, income_target, is_loan) ==
    [id |-> id, country |-> country, city |-> city,
     coverage_rate |-> coverage_rate, max_amount |-> max_amount,
     eligible_owner_types |-> owner_types,
     eligible_building_types |-> building_types,
     eligible_current_heat |-> current_heat,
     eligible_target_tech |-> target_tech,
     income_target |-> income_target, is_loan |-> is_loan]

IncentiveResult(i, a) == [incentive |-> i, amount |-> a]

StackedPlan(results, total, share, remaining) ==
    [incentives |-> results, total |-> total, share |-> share,
     remaining |-> remaining]

Supplier(price_kwh, renewable_share) ==
    [price_kwh |-> price_kwh, renewable_share |-> renewable_share]

\* value of a variable the running call does not use
Unused == "unused"

-----------------------------------------------------------------------------
(* Calls of match_incentive on every profile and incentive of a bounded set *)

MatchProfiles ==
    { BuildingProfile("DE", c, o, il, b, y, h, t, Num(MaxCost)) :
        c \in {"Frankfurt", "frankfurt", "Berlin"},
        o \in {"homeowner", "landlord"},
        il \in {"low", "medium"},
        b \in {"single_family", "multi_family"},
        y \in {1975, 2000},
        h \in {"gas", "electric"},
        t \in {"heat_pump_air", "heat_pump_ground"} }

MatchIncentives ==
    { Incentive("X", c, ct, Rat(1, 2), Zero, o, b, h, t, it, l) :
        c \in {"DE", "AT"},
        ct \in {None, "", "Frankfurt", "FRANKFURT"},
        o \in {<<>>, <<"homeowner">>, <<"tenant", "landlord">>},
        b \in {<<>>, <<"single_family">>},
        h \in {<<>>, <<"gas", "oil">>},
        t \in {<<>>, <<"heat_pump_air">>},
        it \in {None, "", "low"},
        l \in BOOLEAN }

InitMatch ==
    /\ p \in MatchProfiles
    /\ inc \in MatchIncentives
    /\ pc = "match"
    /\ err = "none"
    /\ incentives = Unused /\ supplier = Unused /\ k = Unused
    /\ applied = Unused /\ matched = Unused /\ amount = Unused
    /\ plan = Unused /\ hp_kwh = Unused /\ co2 = Unused
    /\ calls = {}

\* one call match_incentive(inc, p)
MatchCall ==
    /\ pc = "match"
    /\ matched' = match_incentive(inc, p)
    /\ pc' = "match_done"
    /\ UNCHANGED <<p, inc, incentives, supplier, err, k, applied, amount,
                   plan, hp_kwh, co2, calls>>

NextMatch == MatchCall

SpecMatch == InitMatch /\ [][NextMatch]_vars

-----------------------------------------------------------------------------
(* Calls of calc_incentive_amount on a bounded set of costs, rates and caps *)

\* coverage rates 0, 1/2, 1, ... up to MaxCap
AmountRates == { Rat(j, 2) : j \in 0..(2 * MaxCap) }

\* caps 0 (uncapped), 1/2, 1, ... up to MaxCap
AmountCaps == { Rat(j, 2) : j \in 0..(2 * MaxCap) }

AmountProfiles ==
    { BuildingProfile("DE", "Frankfurt", "homeowner", "medium", "single_family",
                      1975, "gas", "heat_pump_air", Num(c)) : c \in 0..MaxCost }

AmountIncentives ==
    { Incentive("X", "DE", None, r, m, <<>>, <<>>, <<>>, <<>>, None, l) :
        r \in AmountRates, m \in AmountCaps, l \in BOOLEAN }

InitAmount ==
    /\ p \in AmountProfiles
    /\ inc \in AmountIncentives
    /\ pc = "amount"
    /\ err = "none"
    /\ incentives = Unused /\ supplier = Unused /\ k = Unused
    /\ applied = Unused /\ matched = Unused /\ amount = Unused
    /\ plan = Unused /\ hp_kwh = Unused /\ co2 = Unused
    /\ calls = {}

\* one call calc_incentive_amount(inc, p)
AmountCall ==
    /\ pc = "amount"
    /\ amount' = calc_incentive_amount(inc, p)
    /\ pc' = "amount_done"
    /\ UNCHANGED <<p, inc, incentives, supplier, err, k, applied, matched,
                   plan, hp_kwh, co2, calls>>

NextAmount == AmountCall

SpecAmount == InitAmount /\ [][NextAmount]_vars

-----------------------------------------------------------------------------
(* build_stacked_plan, lines 123-136 *)

\* the amounts of a list of IncentiveResult
Amounts(results) == [j \in 1..Len(results) |-> results[j].amount]

\* loop body with the test amount >= 0 in place of amount > 0
StackLoopBody_keeps_zero(results, i, q) ==
    IF match_incentive(i, q) /\ RLe(Zero, calc_incentive_amount(i, q))
    THEN Append(results, IncentiveResult(i, calc_incentive_amount(i, q)))
    ELSE results

\* lines 126-129: the list applied after the loop body has run for incentive i
StackLoopBody(results, i, q) ==
    IF match_incentive(i, q) /\ RLt(Zero, calc_incentive_amount(i, q))
    THEN Append(results, IncentiveResult(i, calc_incentive_amount(i, q)))
    ELSE results

\* the total without the cap at total_cost
StackTotal_uncapped(results, q) == Sum(Amounts(results))

\* the total taking the larger of the sum and total_cost
StackTotal_max(results, q) == RMax(Sum(Amounts(results)), q.total_cost)

\* lines 131-132: total
StackTotal(results, q) == RMin(Sum(Amounts(results)), q.total_cost)

\* the share without the guard on total_cost
StackShare_unguarded(total, q) == TrueDiv(total, q.total_cost)

\* line 133: share, or the exception the division raises
StackShare(total, q) ==
    IF RLt(Zero, q.total_cost)
    THEN TrueDiv(total, q.total_cost)
    ELSE [raised |-> "none", value |-> Zero]

\* incentives the catalogs of the model are built from: grants of country DE
\* with every rate and cap below, one grant of another country, one loan
StackPool ==
    { Incentive("G", "DE", None, r, Num(m), <<>>, <<>>, <<>>, <<>>, None, FALSE) :
        r \in {Zero, Rat(1, 2), Num(1), Rat(3, 2)}, m \in {0, 1, MaxCap} }
    \cup { Incentive("A", "AT", None, Num(1), Zero, <<>>, <<>>, <<>>, <<>>, None, FALSE),
           Incentive("L", "DE", None, Rat(1, 2), Num(MaxCap), <<>>, <<>>, <<>>, <<>>, None, TRUE) }

StackCatalogs == UNION { [1..n -> StackPool] : n \in 0..MaxCatalog }

StackProfiles ==
    { BuildingProfile(c, "Frankfurt", "homeowner", "medium", "single_family", 1975, "gas", "heat_pump_air", Num(t)) :
        c \in {"DE", "AT"}, t \in 0..MaxCost }

\* entry of build_stacked_plan(p, incentives): applied = []
InitStack ==
    /\ p \in StackProfiles
    /\ incentives \in StackCatalogs
    /\ pc = "loop"
    /\ err = "none"
    /\ k = 0
    /\ applied = <<>>
    /\ inc = Unused /\ matched = Unused /\ amount = Unused
    /\ plan = Unused /\ supplier = Unused /\ hp_kwh = Unused /\ co2 = Unused
    /\ calls = {}

\* lines 125-129: one iteration of the for loop
StackLoopStep ==
    /\ pc = "loop"
    /\ k < Len(incentives)
    /\ inc' = incentives[k + 1]
    /\ matched' = match_incentive(inc', p)
    /\ amount' = IF matched' THEN calc_incentive_amount(inc', p) ELSE amount
    /\ applied' = StackLoopBody(applied, inc', p)
    /\ k' = k + 1
    /\ UNCHANGED <<p, incentives, supplier, pc, err, plan, hp_kwh, co2, calls>>

\* lines 131-136: after the loop, total, share, remaining and the return
StackAggregate ==
    /\ pc = "loop"
    /\ k = Len(incentives)
    /\ LET total == StackTotal(applied, p)
           share == StackShare(total, p)
           remaining == RSub(p.total_cost, total)
       IN  IF share.raised # "none"
           THEN /\ err' = share.raised
                /\ pc' = "raised"
                /\ plan' = plan
           ELSE /\ plan' = StackedPlan(applied, total, share.value, remaining)
                /\ pc' = "stack_done"
                /\ err' = err
    /\ UNCHANGED <<p, inc, incentives, supplier, k, applied, matched, amount,
                   hp_kwh, co2, calls>>

NextStack == StackLoopStep \/ StackAggregate

SpecStack == InitStack /\ [][NextStack]_vars

-----------------------------------------------------------------------------
(* A sequence of build_stacked_plan calls with any profiles against one
   catalog *)

\* the list applied kept from one call to the next
StackEntryApplied_shared(previous) == previous

\* line 124: applied is a new empty list in every call, whatever list the
\* previous call left
StackEntryApplied(previous) == <<>>

\* a grant without cap, a capped grant, a grant of another country and a loan
CallsPool ==
    { Incentive("G", "DE", None, Rat(1, 2), Zero, <<>>, <<>>, <<>>, <<>>, None, FALSE),
      Incentive("C", "DE", None, Num(1), Num(1), <<>>, <<>>, <<>>, <<>>, None, FALSE),
      Incentive("A", "AT", None, Num(1), Zero, <<>>, <<>>, <<>>, <<>>, None, FALSE),
      Incentive("L", "DE", None, Rat(1, 2), Num(1), <<>>, <<>>, <<>>, <<>>, None, TRUE) }

CallsCatalogs == UNION { [1..n -> CallsPool] : n \in 0..MaxCatalog }

CallsProfiles ==
    { BuildingProfile(c, "Frankfurt", "homeowner", "medium", "single_family", 1975, "gas", "heat_pump_air", Num(t)) :
        c \in {"DE", "AT"}, t \in {0, 1, MaxCost} }

\* entry of the first call build_stacked_plan(p, incentives)
InitCalls ==
    /\ p \in CallsProfiles
    /\ incentives \in CallsCatalogs
    /\ pc = "loop"
    /\ err = "none"
    /\ k = 0
    /\ applied = StackEntryApplied(<<>>)
    /\ calls = {}
    /\ inc = Unused /\ matched = Unused /\ amount = Unused
    /\ plan = Unused /\ supplier = Unused /\ hp_kwh = Unused /\ co2 = Unused

\* the caller takes the returned plan and calls build_stacked_plan again,
\* with any profile and the same catalog (lines 123-124 of the next call)
StackCallAgain ==
    /\ pc = "stack_done"
    /\ calls' = calls \cup {[p |-> p, incentives |-> incentives, plan |-> plan]}
    /\ p' \in CallsProfiles
    /\ applied' = StackEntryApplied(applied)
    /\ k' = 0
    /\ pc' = "loop"
    /\ inc' = Unused /\ matched' = Unused /\ amount' = Unused /\ plan' = Unused
    /\ UNCHANGED <<incentives, supplier, err, hp_kwh, co2>>

NextCalls == StackLoopStep \/ StackAggregate \/ StackCallAgain

SpecCalls == InitCalls /\ [][NextCalls]_vars

-----------------------------------------------------------------------------
(* 3. STATIC DATA: incentives_multi, lines 143-258 *)

\* lines 147-180: the incentives of country DE
IncentivesDE ==
    << Incentive("DE_BEG_WG", "DE", None, Rat(30, 100), Num(18000), <<"homeowner">>, <<"single_family">>, <<"gas", "oil">>, <<"heat_pump_air", "heat_pump_ground">>, None, FALSE),
       Incentive("DE_HESSEN", "DE", None, Rat(10, 100), Num(4000), <<"homeowner">>, <<>>, <<"gas">>, <<"heat_pump_air">>, None, FALSE),
       Incentive("DE_KFW", "DE", None, Zero, Zero, <<>>, <<>>, <<>>, <<>>, None, TRUE) >>

\* lines 182-204: the incentives of the city of Frankfurt
IncentivesFrankfurt ==
    << Incentive("DE_FFM_TOPUP", "DE", "Frankfurt", Rat(8, 100), Num(3000), <<"homeowner">>, <<>>, <<>>, <<"heat_pump_air">>, None, FALSE),
       Incentive("DE_MAINOVA", "DE", "Frankfurt", Zero, Num(500), <<"homeowner">>, <<>>, <<"gas">>, <<>>, None, FALSE) >>

\* lines 207-228
IncentivesAT(city) ==
    << Incentive("AT_NATIONAL", "AT", None, Rat(25, 100), Num(14000), <<"homeowner">>, <<>>, <<>>, <<"heat_pump_air", "heat_pump_ground">>, None, FALSE),
       Incentive("AT_CITY", "AT", city, Rat(10, 100), Num(4000), <<"homeowner">>, <<>>, <<>>, <<>>, None, FALSE) >>

\* lines 231-243
IncentivesPL ==
    << Incentive("PL_CLEAN_AIR", "PL", None, Rat(30, 100), Num(12000), <<"homeowner">>, <<>>, <<"coal", "gas", "oil">>, <<"heat_pump_air", "heat_pump_ground">>, None, FALSE) >>

\* lines 246-256
IncentivesDemo(country) ==
    << Incentive("EU_DEMO", country, None, Rat(20, 100), Num(10000), <<"homeowner">>, <<>>, <<>>, <<>>, None, FALSE) >>

\* incentives_multi testing the city name without lower()
incentives_multi_case_sensitive(country, city) ==
    IF country = "DE"
    THEN IncentivesDE \o (IF city = "frankfurt" THEN IncentivesFrankfurt ELSE <<>>)
    ELSE IF country = "AT" THEN IncentivesAT(city)
    ELSE IF country = "PL" THEN IncentivesPL
    ELSE IncentivesDemo(country)

incentives_multi(country, city) ==
    IF country = "DE"
    THEN IncentivesDE \o (IF Lower(city) = "frankfurt" THEN IncentivesFrankfurt ELSE <<>>)
    ELSE IF country = "AT" THEN IncentivesAT(city)
    ELSE IF country = "PL" THEN IncentivesPL
    ELSE IncentivesDemo(country)

-----------------------------------------------------------------------------
(* 5. The page script, lines 455-539: the sidebar's choices, the profile, the
   catalog of its jurisdiction and the stacked plan *)

\* lines 458-477: country code and the cities its selectbox or text field gives
SidebarLocations ==
    ({"DE"} \X {"Frankfurt", "Berlin", "Munich", "Other"})
    \cup ({"AT"} \X {"Vienna", "Graz", "Other"})
    \cup ({"PL"} \X {"Warsaw", "Krakow", "Other"})
    \cup ({"EU"} \X {"Capital", ""})

\* lines 482-502 and 525-535: the profile built from the sidebar; owner type
\* and building type keep the dataclass defaults
SidebarProfiles ==
    { BuildingProfile(loc[1], loc[2], "homeowner", il, "single_family", y, h, t, Num(c)) :
        loc \in SidebarLocations,
        il \in {"low", "medium", "high"},
        y \in {1975},
        h \in {"gas", "electric", "district"},
        t \in {"heat_pump_air", "heat_pump_ground"},
        c \in {5000, 28000, 30000, 100000} }

InitApp ==
    /\ p \in SidebarProfiles
    /\ pc = "script"
    /\ err = "none"
    /\ incentives = Unused /\ k = Unused /\ applied = Unused
    /\ inc = Unused /\ matched = Unused /\ amount = Unused
    /\ plan = Unused /\ supplier = Unused /\ hp_kwh = Unused /\ co2 = Unused
    /\ calls = {}

\* lines 538-539: inc_list = incentives_multi(country_code, city) and the
\* entry of build_stacked_plan(profile, inc_list)
AppLoadCatalog ==
    /\ pc = "script"
    /\ incentives' = incentives_multi(p.country, p.city)
    /\ k' = 0
    /\ applied' = <<>>
    /\ pc' = "loop"
    /\ UNCHANGED <<p, inc, supplier, err, matched, amount, plan, hp_kwh, co2, calls>>

NextApp == AppLoadCatalog \/ StackLoopStep \/ StackAggregate

SpecApp == InitApp /\ [][NextApp]_vars

-----------------------------------------------------------------------------
(* 4. CALCULATIONS: calc_co2_profile, lines 351-364 *)

\* the grid emission factor scaled by the renewable share instead of its rest
EffectiveGridEf_inverted(s) ==
    RMul(Rat(35, 100), TrueDiv(Num(s.renewable_share), Num(100)).value)

\* line 360: effective_grid_ef, with grid_ef = 0.35
EffectiveGridEf(s) ==
    RMul(Rat(35, 100), RSub(Num(1), TrueDiv(Num(s.renewable_share), Num(100)).value))

\* lines 356-357: co2_before, with fossil_price = 0.12 and fossil_ef = 0.202
Co2Before(q) ==
    LET kwh_before == TrueDiv(q.annual_current_cost, Rat(12, 100)).value
    IN  TrueDiv(RMul(kwh_before, Rat(202, 1000)), Num(1000)).value

\* the call calc_co2_profile(q, s): the exception it raises, or its locals
\* and the returned (co2_before, co2_after, co2_saved)
calc_co2_profile(q, s) ==
    LET co2_before == Co2Before(q)
        division == TrueDiv(q.annual_hp_cost, s.price_kwh)
        co2_after == TrueDiv(RMul(division.value, EffectiveGridEf(s)), Num(1000)).value
        co2_saved == RMax(RSub(co2_before, co2_after), Zero)
    IN  [raised |-> division.raised,
         hp_kwh |-> division.value,
         value |-> [before |-> co2_before, after |-> RMax(co2_after, Zero),
                    saved |-> co2_saved]]

Co2Profiles ==
    { [BuildingProfile("DE", "Frankfurt", "homeowner", "medium", "single_family", 1975, "gas", "heat_pump_air", Num(MaxCost))
         EXCEPT !.annual_current_cost = Num(a), !.annual_hp_cost = Num(h)] :
        a \in 0..MaxAnnual, h \in 0..MaxAnnual }

\* suppliers with a negative, zero and positive price per kWh
Co2Suppliers ==
    { Supplier(pr, rs) :
        pr \in {Num(-1), Zero, Rat(286, 1000), Rat(3, 10)},
        rs \in {0, 50, 100} }

InitCo2 ==
    /\ p \in Co2Profiles
    /\ supplier \in Co2Suppliers
    /\ pc = "co2"
    /\ err = "none"
    /\ inc = Unused /\ incentives = Unused /\ k = Unused
    /\ applied = Unused /\ matched = Unused /\ amount = Unused
    /\ plan = Unused /\ hp_kwh = Unused /\ co2 = Unused
    /\ calls = {}

\* one call calc_co2_profile(p, supplier)
Co2Call ==
    /\ pc = "co2"
    /\ LET r == calc_co2_profile(p, supplier)
       IN  IF r.raised # "none"
           THEN /\ err' = r.raised
                /\ pc' = "raised"
                /\ UNCHANGED <<hp_kwh, co2>>
           ELSE /\ hp_kwh' = r.hp_kwh
                /\ co2' = r.value
                /\ pc' = "co2_done"
                /\ err' = err
    /\ UNCHANGED <<p, inc, incentives, supplier, k, applied, matched, amount,
                   plan, calls>>

NextCo2 == Co2Call

SpecCo2 == InitCo2 /\ [][NextCo2]_vars

-----------------------------------------------------------------------------
(* Properties of match_incentive *)

\* the elements of a Python list
Elems(l) == { l[j] : j \in 1..Len(l) }

\* an Optional[str] restriction that is absent: None, or the empty string
Unset(s) == s = None \/ s = ""

\* the jurisdiction of incentive i covers profile q
JurisdictionMatches(i, q) ==
    /\ i.country = q.country
    /\ (Unset(i.city) \/ Lower(i.city) = Lower(q.city))

\* the four restriction lists of incentive i admit profile q
ListsAdmit(i, q) ==
    /\ (i.eligible_owner_types = <<>> \/ q.owner_type \in Elems(i.eligible_owner_types))
    /\ (i.eligible_building_types = <<>>
           \/ q.building_type \in Elems(i.eligible_building_types))
    /\ (i.eligible_current_heat = <<>>
           \/ q.current_heating \in Elems(i.eligible_current_heat))
    /\ (i.eligible_target_tech = <<>> \/ q.target_tech \in Elems(i.eligible_target_tech))

AllListsEmpty(i) ==
    /\ i.eligible_owner_types = <<>>
    /\ i.eligible_building_types = <<>>
    /\ i.eligible_current_heat = <<>>
    /\ i.eligible_target_tech = <<>>

\* profiles and incentives that differ from q and i only in fields the
\* matcher is said not to read
OtherProfiles(q) ==
    { [q EXCEPT !.year_built = y, !.total_cost = Num(c),
                !.annual_current_cost = Num(a), !.annual_hp_cost = Num(a + 1)] :
        y \in {1900, 2023}, c \in {0, MaxCost + 1}, a \in {0, MaxAnnual} }

OtherIncentives(i) ==
    { [i EXCEPT !.coverage_rate = r, !.max_amount = Num(m), !.is_loan = l] :
        r \in {Zero, Num(1)}, m \in {0, MaxCap}, l \in BOOLEAN }

\* C2: match_incentive(i, p) is true exactly when the country is equal, the
\* city is unset or equal ignoring case, the income target is unset or equal,
\* and each of the four restriction lists is empty or contains the profile's
\* value; year_built, the costs, coverage_rate, max_amount and is_loan do not
\* change the result.
C2_MatchIffSevenConditions ==
    pc = "match_done" =>
        /\ matched <=> /\ JurisdictionMatches(inc, p)
                       /\ (Unset(inc.income_target) \/ inc.income_target = p.income_level)
                       /\ ListsAdmit(inc, p)
        /\ \A q \in OtherProfiles(p), i \in OtherIncentives(inc) :
               match_incentive(i, q) = matched

\* a match decided by case-insensitive city comparison and list membership
\* beyond the first element
C2_Witness ==
    /\ pc = "match_done" /\ matched
    /\ inc.city = "FRANKFURT" /\ p.city = "frankfurt"
    /\ inc.income_target = "low"
    /\ Len(inc.eligible_owner_types) = 2 /\ inc.eligible_building_types # <<>>
    /\ inc.eligible_current_heat # <<>> /\ inc.eligible_target_tech # <<>>
    /\ inc.is_loan

\* C3 as stated: with the four restriction lists empty and the jurisdiction
\* matching, match_incentive returns true whatever the other profile fields.
C3_AsStated ==
    (pc = "match_done" /\ AllListsEmpty(inc) /\ JurisdictionMatches(inc, p))
        => matched

\* C3 amended: with the four restriction lists empty, the jurisdiction
\* matching and the income target unset or equal to the profile's income
\* level, match_incentive returns true whatever the other profile fields.
C3_OpenIncentiveMatches ==
    (pc = "match_done" /\ AllListsEmpty(inc) /\ JurisdictionMatches(inc, p)
       /\ (Unset(inc.income_target) \/ inc.income_target = p.income_level))
        => /\ matched
           /\ \A q \in OtherProfiles(p) : match_incentive(inc, q)

C3_Witness ==
    /\ pc = "match_done" /\ matched
    /\ AllListsEmpty(inc) /\ inc.city = "Frankfurt" /\ p.city = "frankfurt"
    /\ inc.income_target = None
    /\ p.owner_type = "landlord" /\ p.building_type = "multi_family"
    /\ p.current_heating = "electric" /\ p.target_tech = "heat_pump_ground"

-----------------------------------------------------------------------------
(* Properties of calc_incentive_amount *)

\* the incentive i with another coverage rate
WithRate(i, r) == [i EXCEPT !.coverage_rate = r]

\* the amount is non-decreasing in the coverage rate, around the rate of inc
MonotoneInRate ==
    \A r \in AmountRates :
        /\ RLe(inc.coverage_rate, r)
              => RLe(amount, calc_incentive_amount(WithRate(inc, r), p))
        /\ RLe(r, inc.coverage_rate)
              => RLe(calc_incentive_amount(WithRate(inc, r), p), amount)

\* a positive cap is never exceeded
CapRespected == RLt(Zero, inc.max_amount) => RLe(amount, inc.max_amount)

\* C6 as stated: for a non-loan incentive the amount is non-decreasing in
\* coverage_rate, never exceeds a positive max_amount, and from some coverage
\* rate on equals max_amount.
C6_AsStated ==
    (pc = "amount_done" /\ ~inc.is_loan) =>
        /\ MonotoneInRate
        /\ CapRespected
        /\ RLt(Zero, inc.max_amount) =>
              \E r0 \in AmountRates : \A r \in AmountRates :
                  RLe(r0, r) =>
                      calc_incentive_amount(WithRate(inc, r), p) = inc.max_amount

\* C6 amended: for a non-loan incentive the amount is non-decreasing in
\* coverage_rate and never exceeds a positive max_amount; when max_amount > 0
\* and total_cost > 0, the amount equals max_amount for every coverage rate of
\* at least max_amount / total_cost.
C6_MonotoneAndClamped ==
    (pc = "amount_done" /\ ~inc.is_loan) =>
        /\ MonotoneInRate
        /\ CapRespected
        /\ (/\ RLt(Zero, inc.max_amount)
            /\ RLt(Zero, p.total_cost)
            /\ RLe(inc.max_amount, RMul(p.total_cost, inc.coverage_rate)))
              => amount = inc.max_amount

\* a clamped amount: the raw value is strictly above the cap
C6_Witness ==
    /\ pc = "amount_done" /\ ~inc.is_loan
    /\ RLt(Zero, inc.max_amount)
    /\ RLt(inc.max_amount, RMul(p.total_cost, inc.coverage_rate))
    /\ amount = inc.max_amount

\* C7: calc_incentive_amount returns 0 for every loan, whatever its
\* coverage_rate and max_amount.
C7_LoanAmountIsZero ==
    (pc = "amount_done" /\ inc.is_loan) => amount = Zero

C7_Witness ==
    /\ pc = "amount_done" /\ inc.is_loan
    /\ RLt(Zero, inc.coverage_rate) /\ RLt(Zero, inc.max_amount)
    /\ RLt(Zero, p.total_cost)
    /\ amount = Zero

-----------------------------------------------------------------------------
(* Properties of build_stacked_plan *)

\* C1: for every profile with total_cost >= 0 and every catalog with
\* non-negative rates and caps, the returned plan has 0 <= total <= total_cost,
\* remaining = total_cost - total and remaining >= 0.
C1_TotalWithinCost ==
    pc = "stack_done" =>
        /\ RLe(Zero, plan.total)
        /\ RLe(plan.total, p.total_cost)
        /\ RAdd(plan.remaining, plan.total) = p.total_cost
        /\ RLe(Zero, plan.remaining)

\* a plan whose cap binds: the listed amounts sum to more than total_cost
C1_Witness ==
    /\ pc = "stack_done"
    /\ Len(plan.incentives) = 2
    /\ RLt(p.total_cost, Sum(Amounts(plan.incentives)))
    /\ plan.total = p.total_cost
    /\ plan.remaining = Zero

\* the catalog entries that match q with a positive amount, in catalog order,
\* each paired with its amount
RECURSIVE Eligible(_, _)
Eligible(cat, q) ==
    IF cat = <<>> THEN <<>>
    ELSE LET rest == Eligible(Tail(cat), q)
             a == calc_incentive_amount(Head(cat), q)
         IN  IF match_incentive(Head(cat), q) /\ a.n > 0
             THEN <<[incentive |-> Head(cat), amount |-> a]>> \o rest
             ELSE rest

\* C4: the incentives of the returned plan are exactly the catalog entries, in
\* catalog order, that match and have an amount > 0, each with that amount;
\* matched entries of amount 0 and unmatched entries do not appear.
C4_PlanIsEligibleSubsequence ==
    pc = "stack_done" =>
        /\ plan.incentives = Eligible(incentives, p)
        /\ \A j \in 1..Len(plan.incentives) :
              /\ match_incentive(plan.incentives[j].incentive, p)
              /\ RLt(Zero, plan.incentives[j].amount)

\* a matched loan (amount 0) is dropped and the grant after it is kept
C4_Witness ==
    /\ pc = "stack_done"
    /\ Len(incentives) = 2
    /\ incentives[1].is_loan /\ match_incentive(incentives[1], p)
    /\ Len(plan.incentives) = 1
    /\ plan.incentives[1].incentive = incentives[2]
    /\ RLt(Zero, plan.incentives[1].amount)

\* C5: share = total / total_cost when total_cost > 0 and 0 otherwise; no
\* call raises a division fault, in particular none with total_cost = 0.
C5_ShareDefined ==
    /\ err # "ZeroDivisionError"
    /\ pc # "raised"
    /\ pc = "stack_done" =>
          IF RLt(Zero, p.total_cost)
          THEN RMul(plan.share, p.total_cost) = plan.total
          ELSE plan.share = Zero

\* a plan returned for total_cost = 0 over a catalog with a matching grant
C5_Witness ==
    /\ pc = "stack_done"
    /\ p.total_cost = Zero
    /\ Len(incentives) > 0 /\ match_incentive(incentives[1], p)
    /\ ~incentives[1].is_loan
    /\ plan.share = Zero

-----------------------------------------------------------------------------
(* The Frankfurt scenario *)

FrankfurtProfile ==
    BuildingProfile("DE", "Frankfurt", "homeowner", "medium", "single_family", 1975, "gas", "heat_pump_air", Num(28000))

\* C8: for the Frankfurt profile (homeowner, single_family, gas, air heat
\* pump, income medium, total_cost 28000) and incentives_multi("DE",
\* "Frankfurt") the plan lists exactly the federal grant 8400, the state bonus
\* 2800 and the city top-up 2240 in this order, with total 13440, share 0.48
\* and remaining 14560; the utility rebate and the loan are not listed.
C8_FrankfurtScenario ==
    (pc = "stack_done" /\ p = FrankfurtProfile) =>
        /\ incentives = incentives_multi("DE", "Frankfurt")
        /\ [j \in 1..Len(plan.incentives) |-> plan.incentives[j].incentive.id]
              = <<"DE_BEG_WG", "DE_HESSEN", "DE_FFM_TOPUP">>
        /\ Amounts(plan.incentives) = <<Num(8400), Num(2800), Num(2240)>>
        /\ plan.total = Num(13440)
        /\ plan.share = Rat(48, 100)
        /\ plan.remaining = Num(14560)

C8_Witness ==
    /\ pc = "stack_done" /\ p = FrankfurtProfile
    /\ Len(incentives) = 5 /\ k = 5
    /\ Len(plan.incentives) = 3

-----------------------------------------------------------------------------
(* Properties of calc_co2_profile *)

\* C9: for a supplier whose price_kwh is zero or negative, calc_co2_profile
\* raises no division fault and computes no negative energy use.
C9_PriceGuarded ==
    RLe(supplier.price_kwh, Zero) =>
        /\ err # "ZeroDivisionError"
        /\ pc = "co2_done" => RLe(Zero, hp_kwh)

\* C10: for non-negative annual costs, price_kwh > 0 and renewable_share =
\* 100, calc_co2_profile returns co2_after = 0 and co2_saved = co2_before.
C10_FullyRenewable ==
    (/\ pc = "co2_done"
     /\ RLt(Zero, supplier.price_kwh)
     /\ supplier.renewable_share = 100
     /\ RLe(Zero, p.annual_current_cost) /\ RLe(Zero, p.annual_hp_cost))
        => /\ co2.after = Zero
           /\ co2.saved = co2.before

C10_Witness ==
    /\ pc = "co2_done"
    /\ RLt(Zero, supplier.price_kwh) /\ supplier.renewable_share = 100
    /\ RLt(Zero, p.annual_current_cost) /\ RLt(Zero, p.annual_hp_cost)
    /\ RLt(Zero, hp_kwh)
    /\ co2.after = Zero /\ co2.saved = co2.before /\ RLt(Zero, co2.saved)

-----------------------------------------------------------------------------
(* Properties of a sequence of build_stacked_plan calls *)

\* every returned call saw the catalog as it is now, and the plan just
\* returned equals the plan of every earlier call with the same profile
RepeatableCalls ==
    \A c \in calls :
        /\ c.incentives = incentives
        /\ (pc = "stack_done" /\ c.p = p) => c.plan = plan

\* no step changes the catalog, and no step of a running call changes the
\* profile
ArgumentsUnchanged ==
    /\ incentives' = incentives
    /\ pc = "loop" => p' = p

\* C11: over any sequence of build_stacked_plan calls with any profiles
\* against the same catalog, the catalog and the profiles are left unchanged
\* and a call's plan depends only on its (profile, catalog) arguments:
\* repeating a call returns an equal plan whatever calls ran before it.
C11_PureRepeatableCalls == [](RepeatableCalls) /\ [][ArgumentsUnchanged]_vars

\* a non-empty plan returned a second time for the same profile, after a call
\* with another profile returned another plan
C11_Witness ==
    /\ pc = "stack_done"
    /\ Len(plan.incentives) > 0
    /\ \E c \in calls : c.p = p /\ c.plan = plan
    /\ \E c \in calls : c.p # p /\ Len(c.plan.incentives) > 0 /\ c.plan # plan

-----------------------------------------------------------------------------
(* The cap of build_stacked_plan binds on the aggregate only *)

\* every listed amount is calc_incentive_amount of its incentive, unscaled
AmountsUnscaled ==
    \A j \in 1..Len(plan.incentives) :
        plan.incentives[j].amount
            = calc_incentive_amount(plan.incentives[j].incentive, p)

\* C12: when the listed amounts sum to more than total_cost, total equals
\* total_cost while every listed amount stays calc_incentive_amount of its
\* incentive, so the list sums to more than total; otherwise total equals the
\* sum of the listed amounts.
C12_CapOnAggregateOnly ==
    pc = "stack_done" =>
        /\ AmountsUnscaled
        /\ IF RLt(p.total_cost, Sum(Amounts(plan.incentives)))
           THEN /\ plan.total = p.total_cost
                /\ RLt(plan.total, Sum(Amounts(plan.incentives)))
           ELSE plan.total = Sum(Amounts(plan.incentives))

\* two grants of 3/2 and 1 times a positive total_cost: the cap binds and the
\* listed amounts keep their full value
C12_Witness ==
    /\ pc = "stack_done"
    /\ RLt(Zero, p.total_cost)
    /\ Len(plan.incentives) = 2
    /\ plan.incentives[1].amount = RMul(p.total_cost, Rat(3, 2))
    /\ plan.incentives[2].amount = p.total_cost
    /\ plan.total = p.total_cost
    /\ RLt(plan.total, Sum(Amounts(plan.incentives)))

=============================================================================
